---- MODULE Spec2Model ----
(***************************************************************************)
(* State-machine model of the payment microservice: the payment controller *)
(* (createPayment, updatePaymentStatus, processRefund, cancelPayment,      *)
(* handleStripeWebhook and its event handlers), the pure helpers of        *)
(* paymentService (validatePaymentData, canRefund), the gateway client     *)
(* (stripeService.processWebhook) and the persistence collaborator behind  *)
(* databaseService.                                                        *)
(*                                                                         *)
(* Money is counted in cents.  Time is counted in days.  The accented      *)
(* status strings of the source are written without accents:               *)
(*   'complété' -> "complete", 'échoué' -> "echoue", 'annulé' -> "annule". *)
(***************************************************************************)
EXTENDS Integers, FiniteSets, Sequences, TLC

\* ------------------------------------------------------------------------
\* Bounds of the model
\* ------------------------------------------------------------------------
\* the clock stops advancing once it has reached MaxNow days
MaxNow == 40

\* days added by one step of the clock
TickDays == 40

\* largest amount (cents) given to the fee computations
MaxFeeAmount == 1000

\* ------------------------------------------------------------------------
\* Values
\* ------------------------------------------------------------------------
None == "none"

EN_ATTENTE == "en_attente"
TRAITEMENT == "traitement"
COMPLETE   == "complete"
ECHOUE     == "echoue"
ANNULE     == "annule"
REMBOURSE  == "rembourse"

\* the six statuses of the payment record
Statuses == {EN_ATTENTE, TRAITEMENT, COMPLETE, ECHOUE, REMBOURSE, ANNULE}

\* status values a caller can put in the body of PUT /:id/status: the six
\* statuses and one string outside the set
RequestStatuses == Statuses \cup {"en attente"}

\* payment ids the persistence service can assign and ids requests can name
PaymentIds == {"p1"}
RequestIds == PaymentIds \cup {"p404"}

\* reservations that exist in the persistence service
Reservations == {"r1"}

CARTE_CREDIT == "carte_credit"
validMethods == {CARTE_CREDIT, "paypal", "virement", "especes", "autre"}

\* amounts (cents) carried by creation requests, 0 is an invalid amount
RequestAmounts == {0, 10000}

\* amounts (cents) carried by refund requests
RefundAmounts == {4000, 6000, 15000}

\* days after paymentDate during which a refund is accepted
RefundWindowDays == 30

\* an absent day (a record without paymentDate) and an absent amount of money
NoDay == 0 - 1
NoMoney == 0 - 1

NoPayment == [exists |-> FALSE]

NoEvent == [type |-> None]

\* the request body of an operation whose body is not recorded
NoRequest == [reservation |-> None]

\* the data of a response that carries no checkout session
NoData == [sessionId |-> None]

\* ids of checkout sessions, by the function that makes them: the template
\* cs_test_sim_... of createSimulatedPaymentLink, the template cs_sim_... of
\* createSimulatedSession, and the ids the gateway assigns
SimulatedLinkIds == {"cs_test_sim_1", "cs_test_sim_2"}
SimulatedSessionIds == {"cs_sim_1", "cs_sim_2"}
GatewaySessionIds == {"cs_live_1", "cs_live_2"}

SessionIds == SimulatedLinkIds \cup SimulatedSessionIds \cup GatewaySessionIds

\* the text of a session id, cut at its underscores
split(sessionId) ==
  CASE sessionId = "cs_test_sim_1" -> <<"cs", "test", "sim", "1">>
    [] sessionId = "cs_test_sim_2" -> <<"cs", "test", "sim", "2">>
    [] sessionId = "cs_sim_1" -> <<"cs", "sim", "1">>
    [] sessionId = "cs_sim_2" -> <<"cs", "sim", "2">>
    [] sessionId = "cs_live_1" -> <<"cs", "live", "1">>
    [] sessionId = "cs_live_2" -> <<"cs", "live", "2">>
    [] OTHER -> <<"cs", "1">>

\* whether the gateway accepts or refuses to create a checkout session
GatewayOutcomes == {"ok", "error"}

\* where the persistence service fails during one request: nowhere, on the
\* lookup, on the write; for a webhook also on the mark-completed call
DbFailures == {"none", "read", "write"}
WebhookDbFailures == DbFailures \cup {"mark"}

\* webhook event types: those handleStripeWebhook dispatches on, and one
\* it does not
EventTypes ==
  {"checkout.session.completed", "checkout.session.expired",
   "payment_intent.succeeded", "charge.dispute.created"}

\* webhook payloads: whether the body parses as JSON, whether its signature
\* verifies, and the fields of the event it carries (amount_total 0 = absent).
\* A signed payload is JSON; the gateway reports the amount and the payment
\* intent of a completed session, and of no other event; only checkout
\* sessions carry the metadata of this service
Payloads ==
  {p \in [wellFormed : BOOLEAN, signed : BOOLEAN,
          type : EventTypes \cup {None},
          session_id : {"cs_1"}, paymentId : RequestIds \cup {None},
          payment_intent : {None, "pi_1"}, amount_total : {0, 10000}] :
     /\ p.signed => p.wellFormed
     /\ (p.payment_intent = None) <=> (p.amount_total = 0)
     /\ (p.type = "checkout.session.completed") <=> (p.amount_total # 0)
     /\ p.type \notin {"checkout.session.completed",
                       "checkout.session.expired"} => p.paymentId = None}

\* creation request bodies: the reservation reference is read under two
\* names, reservation by the validation and reservationId by the lookup
CreateBodies ==
  [reservation : {None, "r1"}, reservationId : {None, "r1", "r404"},
   amount : RequestAmounts,
   paymentMethod : {None, CARTE_CREDIT, "virement", "methode_invalide"},
   paymentDetails : {None, "card"}]

VARIABLES
  payments,        \* the records held by the persistence service, by id
  now,             \* the current day
  simulationMode,  \* stripeService.simulationMode
                   \* (STRIPE_SIMULATION_MODE === 'true')
  isSimulationMode,\* isSimulationMode of createStripePaymentLink
                   \* (STRIPE_SIMULATION === 'true')
  last,            \* the last request handled: its response, the calls it
                   \* made, the webhook event it carried and whether that
                   \* event is the one the previous request carried
  inflight,        \* the requests that await their updatePayment call
  overwrote        \* history: the operations whose update, sent after a
                   \* payment had become completed, replaced that status

vars ==
  <<payments, now, simulationMode, isSimulationMode, last, inflight,
    overwrote>>

\* ------------------------------------------------------------------------
\* Persistence service (external collaborator reached over HTTP)
\* ------------------------------------------------------------------------
\* fields a record has when the request that created it did not send them
DbDefaults ==
  [exists |-> TRUE, refundAmount |-> 0, paymentDate |-> NoDay,
   fees |-> NoMoney, netAmount |-> NoMoney, notes |-> None,
   stripeSessionId |-> None, paymentLinkUrl |-> None,
   linkCreatedAt |-> NoDay,
   paymentDetails |-> None]

\* r with the fields of u overriding
Merge(r, u) ==
  [f \in DOMAIN r \cup DOMAIN u |-> IF f \in DOMAIN u THEN u[f] ELSE r[f]]

\* POST /api/payments
DbCreate(data) == Merge(DbDefaults, data)

\* a persistence service that leaves a completed record as it is
DbUpdate_keepsCompleted(payment, updateData) ==
  IF "status" \in DOMAIN payment /\ payment.status = COMPLETE THEN payment
  ELSE Merge(payment, updateData)

\* PUT /api/payments/:id
DbUpdate(payment, updateData) == Merge(payment, updateData)

\* a refund endpoint that marks the record refunded on any refund
DbRefund_anyRefundFlips(payment, amount) ==
  [payment EXCEPT !.refundAmount = payment.refundAmount + amount,
                  !.status = REMBOURSE]

\* POST /api/payments/:id/refund
DbRefund(payment, amount) ==
  LET total == payment.refundAmount + amount
  IN  [payment EXCEPT !.refundAmount = total,
                      !.status = IF total = payment.amount THEN REMBOURSE
                                 ELSE payment.status]

\* POST /api/payments/:id/mark-completed
DbMarkCompleted(payment) == [payment EXCEPT !.status = COMPLETE]

\* GET /api/payments/:id : the record, or null on a 404 answer
findPaymentById(id) ==
  IF id \in PaymentIds /\ payments[id].exists THEN payments[id] ELSE NoPayment

\* a reservation lookup that finds every id
findReservationById_alwaysFound(id) == TRUE

\* GET /api/reservations/:id : found, or null on a 404 answer
findReservationById(id) == id \in Reservations

\* ------------------------------------------------------------------------
\* paymentService: pure helpers
\* ------------------------------------------------------------------------
\* percentage fee (per mille) and fixed fee (cents) of each payment method
fees ==
  [carte_credit |-> 29, paypal |-> 34, virement |-> 5, especes |-> 0,
   autre |-> 0]

fixedFees ==
  [carte_credit |-> 30, paypal |-> 35, virement |-> 0, especes |-> 0,
   autre |-> 0]

\* the half cents that Math.round rounds down because the binary floating
\* point product lies just under the half, for amounts up to 200.00:
\* method, amount in cents, field
roundedDown ==
  {<<"paypal", 12250, "totalFees">>, <<"paypal", 12750, "totalFees">>,
   <<"paypal", 13250, "totalFees">>, <<"paypal", 15750, "netAmount">>,
   <<"virement", 500, "netAmount">>, <<"virement", 2900, "totalFees">>,
   <<"virement", 7700, "netAmount">>, <<"virement", 12900, "netAmount">>,
   <<"virement", 13500, "netAmount">>, <<"virement", 14100, "netAmount">>,
   <<"virement", 14700, "netAmount">>, <<"stripe", 6500, "fees">>}

\* Math.round(x * 100) / 100 in cents, for x given in thousandths of a cent:
\* half up, but for the listed inputs
round(thousandths, paymentMethod, amount, field) ==
  (thousandths + 500) \div 1000
    - (IF <<paymentMethod, amount, field>> \in roundedDown THEN 1 ELSE 0)

\* calculateTransactionFees taking the net amount before the fixed fee
calculateTransactionFees_netBeforeFixedFee(amount, paymentMethod) ==
  LET rate == IF paymentMethod \in DOMAIN fees THEN fees[paymentMethod] ELSE 0
      fixedFee == IF paymentMethod \in DOMAIN fixedFees
                  THEN fixedFees[paymentMethod] ELSE 0
  IN  [amount |-> amount,
       totalFees |-> round(rate * amount + 1000 * fixedFee,
                           paymentMethod, amount, "totalFees"),
       netAmount |-> round((1000 - rate) * amount,
                           paymentMethod, amount, "netAmount")]

\* totalFees and netAmount of calculateTransactionFees, in cents, for an
\* amount in cents: Math.round(x * 100) / 100 of the exact value, Math.round
\* rounding half up
calculateTransactionFees(amount, paymentMethod) ==
  LET rate == IF paymentMethod \in DOMAIN fees THEN fees[paymentMethod] ELSE 0
      fixedFee == IF paymentMethod \in DOMAIN fixedFees
                  THEN fixedFees[paymentMethod] ELSE 0
  IN  [amount |-> amount,
       totalFees |-> round(rate * amount + 1000 * fixedFee,
                           paymentMethod, amount, "totalFees"),
       netAmount |-> round((1000 - rate) * amount - 1000 * fixedFee,
                           paymentMethod, amount, "netAmount")]

\* validatePaymentData without the test of the method against validMethods
validatePaymentData_anyMethod(paymentData) ==
  (IF paymentData.reservation = None THEN <<"ID de reservation requis">> ELSE <<>>)
  \o (IF paymentData.amount <= 0 THEN <<"Montant invalide">> ELSE <<>>)
  \o (IF paymentData.paymentMethod = None
       THEN <<"Methode de paiement requise">> ELSE <<>>)
  \o (IF paymentData.paymentMethod = CARTE_CREDIT
          /\ paymentData.paymentDetails = None
       THEN <<"Numero de carte requis", "Date d'expiration requise",
              "Code CVV requis">>
       ELSE <<>>)

\* the list of validation errors of a creation payload (empty = valid)
validatePaymentData(paymentData) ==
  (IF paymentData.reservation = None THEN <<"ID de reservation requis">> ELSE <<>>)
  \o (IF paymentData.amount <= 0 THEN <<"Montant invalide">> ELSE <<>>)
  \o (IF paymentData.paymentMethod = None
       THEN <<"Methode de paiement requise">> ELSE <<>>)
  \o (IF paymentData.paymentMethod # None
          /\ paymentData.paymentMethod \notin validMethods
       THEN <<"Methode de paiement invalide">> ELSE <<>>)
  \o (IF paymentData.paymentMethod = CARTE_CREDIT
          /\ paymentData.paymentDetails = None
       THEN <<"Numero de carte requis", "Date d'expiration requise",
              "Code CVV requis">>
       ELSE <<>>)

\* canRefund comparing the request with the whole amount of the payment
canRefund_ignoresRefunded(payment, requestedAmount) ==
  IF payment.status # COMPLETE
  THEN [canRefund |-> FALSE, reason |-> "status"]
  ELSE IF requestedAmount > payment.amount
       THEN [canRefund |-> FALSE, reason |-> "maximum"]
       ELSE IF payment.paymentDate # NoDay
               /\ now > payment.paymentDate + RefundWindowDays
            THEN [canRefund |-> FALSE, reason |-> "delai"]
            ELSE [canRefund |-> TRUE, reason |-> None]

\* canRefund without the status rule
canRefund_noStatusRule(payment, requestedAmount) ==
  LET maxRefundAmount == payment.amount - payment.refundAmount
  IN  IF requestedAmount > maxRefundAmount
      THEN [canRefund |-> FALSE, reason |-> "maximum"]
      ELSE IF payment.paymentDate # NoDay
              /\ now > payment.paymentDate + RefundWindowDays
           THEN [canRefund |-> FALSE, reason |-> "delai"]
           ELSE [canRefund |-> TRUE, reason |-> None]

\* canRefund testing the refund window before the remaining balance
canRefund_windowFirst(payment, requestedAmount) ==
  IF payment.status # COMPLETE
  THEN [canRefund |-> FALSE, reason |-> "status"]
  ELSE IF payment.paymentDate # NoDay
          /\ now > payment.paymentDate + RefundWindowDays
       THEN [canRefund |-> FALSE, reason |-> "delai"]
       ELSE IF requestedAmount > payment.amount - payment.refundAmount
            THEN [canRefund |-> FALSE, reason |-> "maximum"]
            ELSE [canRefund |-> TRUE, reason |-> None]

\* refund eligibility of a payment record for a requested amount
canRefund(payment, requestedAmount) ==
  IF payment.status # COMPLETE
  THEN [canRefund |-> FALSE, reason |-> "status"]
  ELSE LET maxRefundAmount == payment.amount - payment.refundAmount
       IN  IF requestedAmount > maxRefundAmount
           THEN [canRefund |-> FALSE, reason |-> "maximum"]
           ELSE IF payment.paymentDate # NoDay
                   /\ now > payment.paymentDate + RefundWindowDays
                THEN [canRefund |-> FALSE, reason |-> "delai"]
                ELSE [canRefund |-> TRUE, reason |-> None]

\* ------------------------------------------------------------------------
\* stripeService: the gateway client
\* ------------------------------------------------------------------------
\* the methods the StripeService class defines
StripeServiceMethods ==
  {"createCheckoutSession", "createSimulatedSession", "retrieveSession",
   "getSimulatedSessionStatus", "processWebhook", "processSimulatedWebhook",
   "createRefund", "createSimulatedRefund", "validateConfiguration",
   "getConfigurationWarnings"}

\* the event built from a simulated webhook payload
processSimulatedWebhook(payload) ==
  [type |-> IF payload.type = None THEN "checkout.session.completed"
            ELSE payload.type,
   id |-> IF payload.session_id = None THEN "cs_sim_test"
          ELSE payload.session_id,
   paymentId |-> payload.paymentId,
   payment_intent |-> None,
   amount_total |-> 0]

\* processWebhook returning the event of a payload whose signature does not
\* verify
processWebhook_acceptsUnsigned(payload) ==
  IF payload.body # "raw" THEN NoEvent
  ELSE IF simulationMode
  THEN IF payload.wellFormed THEN processSimulatedWebhook(payload) ELSE NoEvent
  ELSE [type |-> payload.type, id |-> payload.session_id,
        paymentId |-> payload.paymentId,
        payment_intent |-> payload.payment_intent,
        amount_total |-> payload.amount_total]

\* the event returned for a webhook payload, NoEvent when the call throws:
\* the body is not the raw body (JSON.parse and constructEvent both throw on
\* an object), the signature does not verify, or the simulated payload is
\* not JSON
processWebhook(payload) ==
  IF payload.body # "raw" THEN NoEvent
  ELSE IF simulationMode
  THEN IF payload.wellFormed THEN processSimulatedWebhook(payload) ELSE NoEvent
  ELSE IF payload.signed
       THEN [type |-> payload.type, id |-> payload.session_id,
             paymentId |-> payload.paymentId,
             payment_intent |-> payload.payment_intent,
             amount_total |-> payload.amount_total]
       ELSE NoEvent

\* the mode in which processWebhook treats a webhook: parsed as a simulated
\* payload, or verified against the signing secret
webhookMode == IF simulationMode THEN "simulation" ELSE "live"

\* whether the text of a session id starts with the prefix, both cut at
\* their underscores
startsWith(sessionId, prefix) ==
  LET text == split(sessionId)
  IN  /\ Len(prefix) <= Len(text)
      /\ \A i \in 1..Len(prefix) : prefix[i] = text[i]

\* the function retrieveSession hands a session id to
retrieveSession(sessionId) ==
  IF simulationMode \/ startsWith(sessionId, <<"cs", "sim">>)
  THEN "stripe.getSimulatedSessionStatus"
  ELSE "stripe.checkout.sessions.retrieve"

\* ------------------------------------------------------------------------
\* server: the order in which middleware and routers are mounted
\* ------------------------------------------------------------------------
\* the two routes that hand a request to a handler verifying gateway events
WebhooksRoute == "/api/webhooks/stripe"
PaymentsWebhookRoute == "/api/payments/webhook/stripe"

\* the path of a route, segment by segment
pathOf(route) ==
  IF route = WebhooksRoute THEN <<"api", "webhooks", "stripe">>
  ELSE <<"api", "payments", "webhook", "stripe">>

\* app.use calls of the server, in order
appStack ==
  <<[mount |-> <<>>, use |-> "helmet"],
    [mount |-> <<>>, use |-> "compression"],
    [mount |-> <<>>, use |-> "limiter"],
    [mount |-> <<>>, use |-> "cors"],
    [mount |-> <<"api", "webhooks">>, use |-> "webhookRoutes"],
    [mount |-> <<>>, use |-> "express.json"],
    [mount |-> <<>>, use |-> "express.urlencoded"],
    [mount |-> <<>>, use |-> "logger"],
    [mount |-> <<"api", "payments">>, use |-> "paymentRoutes"]>>

\* the layers of the two routers that a POST of a webhook can match
webhookRoutesStack ==
  <<[mount |-> <<"stripe">>, use |-> "express.raw"],
    [mount |-> <<"stripe">>, use |-> "webhookController.handleStripeWebhook"]>>

paymentRoutesStack ==
  <<[mount |-> <<"webhook", "stripe">>, use |-> "express.raw"],
    [mount |-> <<"webhook", "stripe">>,
     use |-> "paymentController.handleStripeWebhook"]>>

Routers == {"webhookRoutes", "paymentRoutes"}

Handlers ==
  {"webhookController.handleStripeWebhook",
   "paymentController.handleStripeWebhook"}

IsPrefix(p, path) ==
  /\ Len(p) <= Len(path)
  /\ \A i \in 1..Len(p) : p[i] = path[i]

\* the middleware and handlers a request for the path goes through, in order
RECURSIVE traverse(_, _)
traverse(stack, path) ==
  IF stack = <<>> THEN <<>>
  ELSE LET layer == Head(stack)
           rest == traverse(Tail(stack), path)
       IN  IF ~IsPrefix(layer.mount, path) THEN rest
           ELSE IF layer.use \in Routers
           THEN traverse(IF layer.use = "webhookRoutes"
                         THEN webhookRoutesStack ELSE paymentRoutesStack,
                         SubSeq(path, Len(layer.mount) + 1, Len(path)))
                \o rest
           ELSE <<layer.use>> \o rest

\* req.body after a middleware, for a request whose content type is
\* application/json: a body parser leaves a body already parsed as it is
applyMiddleware(body, middleware) ==
  IF middleware = "express.json" /\ body = "unread" THEN "parsed"
  ELSE IF middleware = "express.raw" /\ body = "unread" THEN "raw"
  ELSE body

\* req.body when the first handler of the sequence is reached
RECURSIVE bodyAfter(_, _)
bodyAfter(names, body) ==
  IF names = <<>> \/ Head(names) \in Handlers THEN body
  ELSE bodyAfter(Tail(names), applyMiddleware(body, Head(names)))

\* the first handler of the sequence
RECURSIVE firstHandler(_)
firstHandler(names) ==
  IF names = <<>> THEN None
  ELSE IF Head(names) \in Handlers THEN Head(names)
  ELSE firstHandler(Tail(names))

\* the form of req.body handed to the handler of a route, and that handler
bodyAtHandler(route) == bodyAfter(traverse(appStack, pathOf(route)), "unread")

handlerOf(route) == firstHandler(traverse(appStack, pathOf(route)))

\* ------------------------------------------------------------------------
\* paymentController
\* ------------------------------------------------------------------------
\* gateway fee rate (per mille) and fixed fee (cents) of calculateStripeFees
StripeFeeRatePerMille == 29
StripeFixedFeeCents == 25

\* Math.round((amount * feeRate + fixedFee) * 100) / 100, in cents, for an
\* amount given in cents; Math.round rounds half up
calculateStripeFees(amountCents) ==
  round(StripeFeeRatePerMille * amountCents + 1000 * StripeFixedFeeCents,
        "stripe", amountCents, "fees")

Response(op, id, code, msg, calls) ==
  [op |-> op, id |-> id, code |-> code, msg |-> msg, calls |-> calls,
   event |-> NoEvent, redelivered |-> FALSE, request |-> NoRequest,
   data |-> NoData]

\* the payments a database call of this request leaves: unchanged when the
\* call fails
Store(id, record) == [payments EXCEPT ![id] = record]

\* ids the persistence service has not assigned yet
FreeIds == {id \in PaymentIds : ~payments[id].exists}

\* createPayment sending the card details along with the record
paymentDataForDB_unstripped(paymentData) ==
  [reservationId |-> paymentData.reservationId,
   paymentMethod |-> paymentData.paymentMethod,
   amount |-> paymentData.amount,
   transactionId |-> "temp",
   status |-> EN_ATTENTE,
   paymentDetails |-> paymentData.paymentDetails]

\* the record createPayment sends to the persistence service
paymentDataForDB(paymentData) ==
  [reservationId |-> paymentData.reservationId,
   paymentMethod |-> paymentData.paymentMethod,
   amount |-> paymentData.amount,
   transactionId |-> "temp",
   status |-> EN_ATTENTE]

\* POST / : createPayment
createPayment(paymentData, fail) ==
  /\ LET answer(id, code, msg, calls) ==
           [Response("createPayment", id, code, msg, calls)
            EXCEPT !.request = paymentData]
     IN  IF validatePaymentData(paymentData) # <<>>
         THEN /\ last' = answer(None, 400, "validation", {})
              /\ UNCHANGED payments
         ELSE IF fail = "read"
         THEN /\ last' = answer(None, 500, "upstream", {"findReservationById"})
              /\ UNCHANGED payments
         ELSE IF ~findReservationById(paymentData.reservationId)
         THEN /\ last' = answer(None, 404, "reservation",
                                {"findReservationById"})
              /\ UNCHANGED payments
         ELSE IF fail = "write"
         THEN /\ last' = answer(None, 500, "upstream",
                                {"findReservationById", "createPayment"})
              /\ UNCHANGED payments
         ELSE /\ FreeIds # {}
              /\ LET id == CHOOSE i \in FreeIds : TRUE
                 IN  /\ payments' =
                          Store(id, DbCreate(paymentDataForDB(paymentData)))
                     /\ last' = answer(id, 201, "created",
                                       {"findReservationById", "createPayment"})
  /\ UNCHANGED <<now, simulationMode, isSimulationMode, inflight, overwrote>>

\* the update updatePaymentStatus sends for a request body
statusUpdateData(status, transactionId) ==
  LET base == [status |-> status]
      withTx == IF transactionId # None
                THEN Merge(base, [transactionId |-> transactionId]) ELSE base
  IN  IF status = COMPLETE THEN Merge(withTx, [paymentDate |-> now])
      ELSE withTx

\* PUT /:id/status : updatePaymentStatus
updatePaymentStatus(id, status, transactionId, fail) ==
  /\ LET payment == findPaymentById(id)
     IN  IF fail = "read"
         THEN /\ last' = Response("updatePaymentStatus", id, 500, "upstream",
                                  {"findPaymentById"})
              /\ UNCHANGED payments
         ELSE IF ~payment.exists
         THEN /\ last' = Response("updatePaymentStatus", id, 404, "payment",
                                  {"findPaymentById"})
              /\ UNCHANGED payments
         ELSE IF fail = "write"
         THEN /\ last' = Response("updatePaymentStatus", id, 500, "upstream",
                                  {"findPaymentById", "updatePayment"})
              /\ UNCHANGED payments
         ELSE /\ payments' = Store(id, DbUpdate(payment,
                                   statusUpdateData(status, transactionId)))
              /\ last' = Response("updatePaymentStatus", id, 200, "updated",
                                  {"findPaymentById", "updatePayment"})
  /\ UNCHANGED <<now, simulationMode, isSimulationMode, inflight, overwrote>>

\* whether processRefund calls the gateway for a payment record
needsGatewayRefund(payment) ==
  payment.paymentMethod = CARTE_CREDIT /\ payment.transactionId # None

\* the number a gateway call is given as its amount in minor units when the
\* stored amount, held here in cents, is multiplied by the factor first:
\* amount * 100 counts cents, amount itself counts units of the currency
amountGiven(amount, factor) == (amount * factor) \div 100

\* POST /:id/refund : processRefund
processRefund(id, amount, fail) ==
  /\ LET payment == findPaymentById(id)
         check == canRefund(payment, amount)
         answer(code, msg, calls) ==
           [Response("processRefund", id, code, msg, calls)
            EXCEPT !.request = [amount |-> amount, at |-> now]]
     IN  IF fail = "read"
         THEN /\ last' = answer(500, "upstream", {"findPaymentById"})
              /\ UNCHANGED payments
         ELSE IF ~payment.exists
         THEN /\ last' = answer(404, "payment", {"findPaymentById"})
              /\ UNCHANGED payments
         ELSE IF ~check.canRefund
         THEN /\ last' = answer(400, check.reason, {"findPaymentById"})
              /\ UNCHANGED payments
         ELSE IF fail = "write"
         THEN /\ last' = answer(500, "upstream",
                                {"findPaymentById", "refundPayment"})
              /\ UNCHANGED payments
         ELSE /\ payments' = Store(id, DbRefund(payment, amount))
              /\ IF ~needsGatewayRefund(payment)
                 THEN last' = answer(200, "refunded",
                                     {"findPaymentById", "refundPayment"})
                 ELSE LET given == [gatewayAmount |-> amountGiven(amount, 1)]
                      IN  IF "processRefund" \in StripeServiceMethods
                          THEN last' =
                                 [answer(200, "refunded",
                                         {"findPaymentById", "refundPayment",
                                          "stripe.processRefund"})
                                  EXCEPT !.data = given]
                          ELSE last' =
                                 [answer(500, "not a function",
                                         {"findPaymentById", "refundPayment"})
                                  EXCEPT !.data = given]
  /\ UNCHANGED <<now, simulationMode, isSimulationMode, inflight, overwrote>>

\* POST /:id/refund up to its await of refundPayment: the payment was read
\* and the eligibility check passed on what was read
processRefundRead(id, amount, serial) ==
  /\ LET payment == findPaymentById(id)
     IN  /\ payment.exists
         /\ canRefund(payment, amount).canRefund
         /\ \A request \in inflight :
              request.op = "processRefund" => request.serial # serial
         /\ inflight' = inflight \cup {[op |-> "processRefund", id |-> id,
                                        event |-> NoEvent, amount |-> amount,
                                        serial |-> serial]}
  /\ UNCHANGED <<payments, now, simulationMode, isSimulationMode, last,
                 overwrote>>

\* POST /:id/refund from its refundPayment call on: the refund reaches the
\* persistence service, which applies it to the record it holds by then,
\* and the gateway step follows
processRefundWrite(request) ==
  /\ request.op = "processRefund"
  /\ payments' = Store(request.id,
                       DbRefund(payments[request.id], request.amount))
  /\ LET answer(code, msg, calls) ==
           [Response("processRefund", request.id, code, msg, calls)
            EXCEPT !.request = [amount |-> request.amount, at |-> now]]
     IN  IF ~needsGatewayRefund(payments[request.id])
         THEN last' = answer(200, "refunded",
                             {"findPaymentById", "refundPayment"})
         ELSE IF "processRefund" \in StripeServiceMethods
         THEN last' = answer(200, "refunded",
                             {"findPaymentById", "refundPayment",
                              "stripe.processRefund"})
         ELSE last' = answer(500, "not a function",
                             {"findPaymentById", "refundPayment"})
  /\ inflight' = inflight \ {request}
  /\ UNCHANGED <<now, simulationMode, isSimulationMode, overwrote>>

\* cancelPayment testing the status under another spelling
cancelRefused_otherSpelling(payment) == payment.status = "completed"

\* the statuses on which cancelPayment refuses to cancel
cancelRefused(payment) == payment.status = COMPLETE

\* the operations the history records when the update of the request
\* replaces the status completed
overwriting(request) ==
  IF payments[request.id].status = COMPLETE
  THEN overwrote \cup {request.op} ELSE overwrote

\* DELETE /:id up to its await of updatePayment: the payment was read and
\* its status was not completed
cancelPaymentRead(id) ==
  /\ LET payment == findPaymentById(id)
     IN  /\ payment.exists
         /\ ~cancelRefused(payment)
         /\ \A request \in inflight : request.op # "cancelPayment"
         /\ inflight' = inflight \cup {[op |-> "cancelPayment", id |-> id,
                                        event |-> NoEvent]}
  /\ UNCHANGED <<payments, now, simulationMode, isSimulationMode, last,
                 overwrote>>

\* DELETE /:id from its updatePayment call on: the update reaches the
\* persistence service, which applies it to the record it holds by then
cancelPaymentWrite(request) ==
  /\ request.op = "cancelPayment"
  /\ payments' = Store(request.id, DbUpdate(payments[request.id],
                                            [status |-> ANNULE]))
  /\ last' = Response("cancelPayment", request.id, 200, "cancelled",
                      {"findPaymentById", "updatePayment"})
  /\ overwrote' = overwriting(request)
  /\ inflight' = inflight \ {request}
  /\ UNCHANGED <<now, simulationMode, isSimulationMode>>

\* DELETE /:id : cancelPayment
cancelPayment(id, fail) ==
  /\ LET payment == findPaymentById(id)
     IN  IF fail = "read"
         THEN /\ last' = Response("cancelPayment", id, 500, "upstream",
                                  {"findPaymentById"})
              /\ UNCHANGED payments
         ELSE IF ~payment.exists
         THEN /\ last' = Response("cancelPayment", id, 404, "payment",
                                  {"findPaymentById"})
              /\ UNCHANGED payments
         ELSE IF cancelRefused(payment)
         THEN /\ last' = Response("cancelPayment", id, 400,
                                  "utilisez le remboursement",
                                  {"findPaymentById"})
              /\ UNCHANGED payments
         ELSE IF fail = "write"
         THEN /\ last' = Response("cancelPayment", id, 500, "upstream",
                                  {"findPaymentById", "updatePayment"})
              /\ UNCHANGED payments
         ELSE /\ payments' = Store(id, DbUpdate(payment, [status |-> ANNULE]))
              /\ last' = Response("cancelPayment", id, 200, "cancelled",
                                  {"findPaymentById", "updatePayment"})
  /\ UNCHANGED <<now, simulationMode, isSimulationMode, inflight, overwrote>>

\* GET /stripe/session/:sessionId/status : checkStripeSessionStatus; the
\* gateway holds only the sessions it created itself
checkStripeSessionStatus(sessionId, gateway) ==
  /\ LET retriever == retrieveSession(sessionId)
         answer(code, msg) ==
           [Response("checkStripeSessionStatus", None, code, msg, {retriever})
            EXCEPT !.request = [sessionId |-> sessionId]]
     IN  IF /\ retriever = "stripe.checkout.sessions.retrieve"
            /\ (gateway = "error" \/ sessionId \notin GatewaySessionIds)
         THEN last' = answer(404, "session")
         ELSE last' = answer(200, "session status")
  /\ UNCHANGED <<payments, now, simulationMode, isSimulationMode, inflight,
                 overwrote>>

\* the refusal of createStripePaymentLink without the test of the method
linkRefused_anyMethod(payment) ==
  IF payment.status \notin {EN_ATTENTE, TRAITEMENT} THEN "status" ELSE None

\* why createStripePaymentLink refuses a payment record: its status, its
\* method, or None when it accepts it
linkRefused(payment) ==
  IF payment.status \notin {EN_ATTENTE, TRAITEMENT} THEN "status"
  ELSE IF payment.paymentMethod # CARTE_CREDIT THEN "method"
  ELSE None

\* the function that creates the session: createSimulatedPaymentLink, or
\* stripeService.createCheckoutSession, which itself either simulates the
\* session or calls the gateway
sessionCreator ==
  IF isSimulationMode THEN "createSimulatedPaymentLink"
  ELSE IF simulationMode THEN "stripe.createSimulatedSession"
  ELSE "stripe.checkout.sessions.create"

\* the unit_amount of the session the gateway is asked to create:
\* parseInt(paymentData.amount * 100); a simulated session sends nothing
sessionAmount(payment) ==
  IF sessionCreator = "stripe.checkout.sessions.create"
  THEN [gatewayAmount |-> amountGiven(payment.amount, 100)]
  ELSE <<>>

\* days a checkout session lives: 24 * 60 * 60 seconds
SessionLifeDays == 1

\* the expiry and the metadata of the session that is created for a
\* payment; createSimulatedPaymentLink makes an id, a url and an expiry, and
\* no metadata
createdSession(id, payment) ==
  [expiresAt |-> now + SessionLifeDays,
   metadata |-> IF sessionCreator = "createSimulatedPaymentLink"
                THEN [paymentId |-> None, reservationId |-> None]
                ELSE [paymentId |-> id,
                      reservationId |-> payment.reservationId]]

\* only the call to the gateway can fail
sessionCreationFails(gateway) ==
  sessionCreator = "stripe.checkout.sessions.create" /\ gateway = "error"

\* the ids the function that creates the session can give it
sessionIdsOf(creator) ==
  IF creator = "createSimulatedPaymentLink" THEN SimulatedLinkIds
  ELSE IF creator = "stripe.createSimulatedSession" THEN SimulatedSessionIds
  ELSE GatewaySessionIds

\* the url of a checkout session: frontendUrl/payment/simulate/sessionId for
\* a simulated link, the url of the session otherwise
checkoutUrl(sessionId) ==
  CASE sessionId = "cs_test_sim_1" -> "frontend/payment/simulate/cs_test_sim_1"
    [] sessionId = "cs_test_sim_2" -> "frontend/payment/simulate/cs_test_sim_2"
    [] sessionId = "cs_sim_1" -> "https://checkout.stripe.com/c/pay/cs_sim_1"
    [] sessionId = "cs_sim_2" -> "https://checkout.stripe.com/c/pay/cs_sim_2"
    [] sessionId = "cs_live_1" -> "https://checkout.stripe.com/c/pay/cs_live_1"
    [] OTHER -> "https://checkout.stripe.com/c/pay/cs_live_2"

\* an update that leaves the session id of the record as it is
linkUpdateData_keepsSessionId(sessionId) ==
  [status |-> TRAITEMENT,
   paymentLinkUrl |-> checkoutUrl(sessionId),
   linkCreatedAt |-> now]

\* the update createStripePaymentLink sends once the session exists
linkUpdateData(sessionId) ==
  [status |-> TRAITEMENT,
   stripeSessionId |-> sessionId,
   paymentLinkUrl |-> checkoutUrl(sessionId),
   linkCreatedAt |-> now]

\* a handler that marks the payment as processing before the session exists
storeOnGatewayError_markedProcessing(id, payment) ==
  Store(id, DbUpdate(payment, [status |-> TRAITEMENT]))

\* the records left when the creation of the session throws: the catch
\* block writes nothing
storeOnGatewayError(id, payment) == payments

\* POST /:id/create-stripe-link : createStripePaymentLink
createStripePaymentLink(id, gateway, fail) ==
  /\ LET payment == findPaymentById(id)
         refusal == linkRefused(payment)
         answer(code, msg, calls) ==
           [Response("createStripePaymentLink", id, code, msg, calls)
            EXCEPT !.request =
                     [gateway |-> gateway,
                      held |-> IF payment.exists THEN payment.stripeSessionId
                               ELSE None]]
     IN  IF fail = "read"
         THEN /\ last' = answer(500, "upstream", {"findPaymentById"})
              /\ UNCHANGED payments
         ELSE IF ~payment.exists
         THEN /\ last' = answer(404, "payment", {"findPaymentById"})
              /\ UNCHANGED payments
         ELSE IF refusal # None
         THEN /\ last' = answer(400, refusal, {"findPaymentById"})
              /\ UNCHANGED payments
         ELSE IF sessionCreationFails(gateway)
         THEN /\ last' = answer(400, "creation du lien",
                                {"findPaymentById", sessionCreator})
              /\ payments' = storeOnGatewayError(id, payment)
         ELSE IF fail = "write"
         THEN /\ last' = answer(400, "creation du lien",
                                {"findPaymentById", sessionCreator,
                                 "updatePayment"})
              /\ UNCHANGED payments
         ELSE \E sessionId \in sessionIdsOf(sessionCreator)
                               \ {payment.stripeSessionId} :
                /\ payments' =
                     Store(id, DbUpdate(payment, linkUpdateData(sessionId)))
                /\ last' =
                     [answer(200, "link created",
                             {"findPaymentById", sessionCreator,
                              "updatePayment"})
                      EXCEPT !.data =
                        Merge([sessionId |-> sessionId,
                               paymentUrl |-> checkoutUrl(sessionId),
                               status |-> TRAITEMENT],
                              Merge(createdSession(id, payment),
                                    sessionAmount(payment)))]
  /\ UNCHANGED <<now, simulationMode, isSimulationMode, inflight, overwrote>>

\* handleCheckoutCompleted adding the fees of the event to the fees stored
completedUpdateData_addsFees(session) ==
  LET stored == payments[session.paymentId].fees
      summed == calculateStripeFees(session.amount_total)
                + (IF stored = NoMoney THEN 0 ELSE stored)
      base == [status |-> COMPLETE,
               transactionId |-> IF session.payment_intent # None
                                 THEN session.payment_intent ELSE session.id,
               paymentDate |-> now,
               stripeSessionId |-> session.id,
               paymentMethodInfo |-> [type |-> CARTE_CREDIT]]
  IN  IF session.amount_total # 0
      THEN Merge(base, [fees |-> summed,
                        netAmount |-> session.amount_total - summed])
      ELSE base

\* handleCheckoutCompleted leaving the transactionId of the record
completedUpdateData_keepsTransactionId(session) ==
  LET base == [status |-> COMPLETE,
               paymentDate |-> now,
               stripeSessionId |-> session.id,
               paymentMethodInfo |-> [type |-> CARTE_CREDIT]]
  IN  IF session.amount_total # 0
      THEN Merge(base,
             [fees |-> calculateStripeFees(session.amount_total),
              netAmount |-> session.amount_total
                            - calculateStripeFees(session.amount_total)])
      ELSE base

\* handleCheckoutCompleted writing the method of the session into the
\* paymentMethod of the record
completedUpdateData_setsPaymentMethod(session) ==
  LET base == [status |-> COMPLETE,
               transactionId |-> IF session.payment_intent # None
                                 THEN session.payment_intent ELSE session.id,
               paymentDate |-> now,
               stripeSessionId |-> session.id,
               paymentMethod |-> CARTE_CREDIT]
  IN  IF session.amount_total # 0
      THEN Merge(base,
             [fees |-> calculateStripeFees(session.amount_total),
              netAmount |-> session.amount_total
                            - calculateStripeFees(session.amount_total)])
      ELSE base

\* the update handleCheckoutCompleted sends for a session
completedUpdateData(session) ==
  LET base == [status |-> COMPLETE,
               transactionId |-> IF session.payment_intent # None
                                 THEN session.payment_intent ELSE session.id,
               paymentDate |-> now,
               stripeSessionId |-> session.id,
               paymentMethodInfo |-> [type |-> CARTE_CREDIT]]
  IN  IF session.amount_total # 0
      THEN Merge(base,
             [fees |-> calculateStripeFees(session.amount_total),
              netAmount |-> session.amount_total
                            - calculateStripeFees(session.amount_total)])
      ELSE base

\* handleCheckoutCompleted writing the update without testing that the
\* lookup found the payment
handleCheckoutCompleted_noLookupTest(session, fail) ==
  LET paymentId == session.paymentId
      payment == findPaymentById(paymentId)
      updated == DbUpdate(payment, completedUpdateData(session))
  IN  IF paymentId = None THEN [store |-> payments, calls |-> {}]
      ELSE IF fail = "read" \/ paymentId \notin PaymentIds
      THEN [store |-> payments, calls |-> {"findPaymentById"}]
      ELSE IF fail = "write"
      THEN [store |-> payments, calls |-> {"findPaymentById", "updatePayment"}]
      ELSE [store |-> Store(paymentId, IF fail = "mark" THEN updated
                                       ELSE DbMarkCompleted(updated)),
            calls |-> {"findPaymentById", "updatePayment",
                       "markPaymentAsCompleted"}]

\* handleCheckoutCompleted: the payments it leaves and the calls it makes;
\* every error is caught and logged
handleCheckoutCompleted(session, fail) ==
  LET paymentId == session.paymentId
      payment == findPaymentById(paymentId)
      updated == DbUpdate(payment, completedUpdateData(session))
  IN  IF paymentId = None THEN [store |-> payments, calls |-> {}]
      ELSE IF fail = "read" \/ ~payment.exists
      THEN [store |-> payments, calls |-> {"findPaymentById"}]
      ELSE IF fail = "write"
      THEN [store |-> payments, calls |-> {"findPaymentById", "updatePayment"}]
      ELSE [store |-> Store(paymentId, IF fail = "mark" THEN updated
                                       ELSE DbMarkCompleted(updated)),
            calls |-> {"findPaymentById", "updatePayment",
                       "markPaymentAsCompleted"}]

\* the update handleCheckoutExpired sends
expiredUpdateData(payment) ==
  [status |-> ECHOUE, notes |-> "Session de paiement expiree"]

\* handleCheckoutExpired sending the update whatever the metadata
handleCheckoutExpired_noMetadataTest(session, fail) ==
  LET paymentId == session.paymentId
      payment == findPaymentById(paymentId)
  IN  IF fail \in {"read", "write"} \/ ~payment.exists
      THEN [store |-> payments, calls |-> {"updatePayment"}]
      ELSE [store |-> Store(paymentId,
                            DbUpdate(payment, expiredUpdateData(payment))),
            calls |-> {"updatePayment"}]

\* handleCheckoutExpired: the payments it leaves and the calls it makes;
\* the update of a record that does not exist is answered 404, caught
handleCheckoutExpired(session, fail) ==
  LET paymentId == session.paymentId
      payment == findPaymentById(paymentId)
  IN  IF paymentId = None THEN [store |-> payments, calls |-> {}]
      ELSE IF fail \in {"read", "write"} \/ ~payment.exists
      THEN [store |-> payments, calls |-> {"updatePayment"}]
      ELSE [store |-> Store(paymentId,
                            DbUpdate(payment, expiredUpdateData(payment))),
            calls |-> {"updatePayment"}]

\* a 'checkout expired' webhook up to the await of updatePayment in
\* handleCheckoutExpired: the event was verified and names a payment
handleCheckoutExpiredReceived(payload) ==
  /\ LET event == processWebhook(payload)
     IN  /\ event.type = "checkout.session.expired"
         /\ event.paymentId \in PaymentIds
         /\ payments[event.paymentId].exists
         /\ \A request \in inflight : request.op # "handleCheckoutExpired"
         /\ inflight' = inflight \cup {[op |-> "handleCheckoutExpired",
                                        id |-> event.paymentId,
                                        event |-> event]}
  /\ UNCHANGED <<payments, now, simulationMode, isSimulationMode, last,
                 overwrote>>

\* a 'checkout expired' webhook from the updatePayment call on
handleCheckoutExpiredWrite(request) ==
  /\ request.op = "handleCheckoutExpired"
  /\ payments' = Store(request.id,
                       DbUpdate(payments[request.id],
                                expiredUpdateData(payments[request.id])))
  /\ last' = [Response("handleStripeWebhook", request.id, 200, "received",
                       {"updatePayment"})
              EXCEPT !.event = request.event]
  /\ overwrote' = overwriting(request)
  /\ inflight' = inflight \ {request}
  /\ UNCHANGED <<now, simulationMode, isSimulationMode>>

\* POST /webhook/stripe : handleStripeWebhook
handleStripeWebhook(payload, fail) ==
  /\ LET event == processWebhook(payload)
         done == IF event.type = "checkout.session.completed"
                 THEN handleCheckoutCompleted(event, fail)
                 ELSE IF event.type = "checkout.session.expired"
                 THEN handleCheckoutExpired(event, fail)
                 ELSE [store |-> payments, calls |-> {}]
         request == [route |-> payload.route, body |-> payload.body,
                     wellFormed |-> payload.wellFormed,
                     signed |-> payload.signed,
                     session_id |-> payload.session_id,
                     mode |-> webhookMode]
     IN  IF event = NoEvent
         THEN /\ last' = [Response("handleStripeWebhook", None, 400,
                                   "webhook error", {})
                          EXCEPT !.request = request]
              /\ UNCHANGED payments
         ELSE /\ payments' = done.store
              /\ last' = [Response("handleStripeWebhook", event.paymentId,
                                   200, "received", done.calls)
                          EXCEPT !.event = event,
                                 !.redelivered = (last.event = event),
                                 !.request = request]
  /\ UNCHANGED <<now, simulationMode, isSimulationMode, inflight, overwrote>>

\* the passage of time
Tick ==
  /\ now < MaxNow
  /\ now' = now + TickDays
  /\ UNCHANGED <<payments, simulationMode, isSimulationMode, last, inflight,
               overwrote>>

\* ------------------------------------------------------------------------
\* Specification: requests are handled one after another
\* ------------------------------------------------------------------------
Init ==
  /\ payments = [id \in PaymentIds |-> NoPayment]
  /\ now = 0
  /\ simulationMode \in BOOLEAN
  /\ isSimulationMode \in BOOLEAN
  /\ inflight = {}
  /\ overwrote = {}
  /\ last = Response("none", None, 0, None, {})

\* POST / : the route applies the express-validator rules of
\* createPaymentValidation before the controller; the model starts at the
\* controller and gives it every body
CreatePayment ==
  \E paymentData \in CreateBodies, fail \in DbFailures :
    createPayment(paymentData, fail)

\* creation request bodies that pass the validation
ValidCreateBodies ==
  {paymentData \in CreateBodies : validatePaymentData(paymentData) = <<>>}

\* POST / with a body that passes the validation
CreateValidPayment ==
  \E paymentData \in ValidCreateBodies, fail \in DbFailures :
    createPayment(paymentData, fail)

UpdatePaymentStatus ==
  \E id \in RequestIds, status \in RequestStatuses,
     transactionId \in {None, "txn_1"}, fail \in DbFailures :
    updatePaymentStatus(id, status, transactionId, fail)

ProcessRefund ==
  \E id \in RequestIds, amount \in RefundAmounts, fail \in DbFailures :
    processRefund(id, amount, fail)

CancelPayment ==
  \E id \in RequestIds, fail \in DbFailures : cancelPayment(id, fail)

CreateStripePaymentLink ==
  \E id \in RequestIds, gateway \in GatewayOutcomes, fail \in DbFailures :
    createStripePaymentLink(id, gateway, fail)

\* the exported handler handleStripeWebhook of the payment controller,
\* given the raw body of the request
\* ------------------------------------------------------------------------
\* webhookController: the handler of POST /api/webhooks/stripe
\* ------------------------------------------------------------------------
IntentEventTypes ==
  {"payment_intent.succeeded", "payment_intent.payment_failed",
   "charge.dispute.created", "invoice.payment_succeeded"}

\* the requests of the gateway: whether the signature verifies, the type of
\* the event, and the id of its object (paymentIntent.id, dispute.charge)
IntentPayloads ==
  [signed : BOOLEAN, type : IntentEventTypes \cup {"customer.created"},
   reference : {"pi_1", "txn_1"}]

\* findPayments({transactionId}): the first payment found, None when there
\* is none
findPaymentByTransactionId(transactionId) ==
  LET found == {id \in PaymentIds : /\ payments[id].exists
                                     /\ payments[id].transactionId
                                          = transactionId}
  IN  IF found = {} THEN None ELSE CHOOSE id \in found : TRUE

\* the update a handler of webhookController sends for the payment found
intentUpdateData(type) ==
  IF type = "payment_intent.payment_failed" THEN [status |-> ECHOUE]
  ELSE [notes |-> "Contestation creee"]

\* the records an event leaves and the calls it makes; every handler
\* catches and logs the errors of its calls
handleIntentEvent(type, reference, fail) ==
  LET id == findPaymentByTransactionId(reference)
  IN  IF type \notin {"payment_intent.succeeded",
                      "payment_intent.payment_failed",
                      "charge.dispute.created"}
      THEN [store |-> payments, calls |-> {}, id |-> None]
      ELSE IF fail = "read" \/ id = None
      THEN [store |-> payments, calls |-> {"findPayments"}, id |-> None]
      ELSE IF type = "payment_intent.succeeded"
      THEN [store |-> IF fail = "write" THEN payments
                      ELSE Store(id, DbMarkCompleted(payments[id])),
            calls |-> {"findPayments", "markPaymentAsCompleted"},
            id |-> id]
      ELSE [store |-> IF fail = "write" THEN payments
                      ELSE Store(id, DbUpdate(payments[id],
                                              intentUpdateData(type))),
            calls |-> {"findPayments", "updatePayment"},
            id |-> id]

\* webhookController.handleStripeWebhook: constructEvent on req.body, then
\* the handler of the type of the event
webhookControllerHandleStripeWebhook(payload, fail) ==
  /\ LET done == handleIntentEvent(payload.type, payload.reference, fail)
         request == [route |-> payload.route, body |-> payload.body,
                     signed |-> payload.signed, type |-> payload.type,
                     reference |-> payload.reference]
     IN  IF payload.body # "raw" \/ ~payload.signed
         THEN /\ last' = [Response("webhookController.handleStripeWebhook",
                                   None, 400, "webhook error", {})
                          EXCEPT !.request = request]
              /\ UNCHANGED payments
         ELSE /\ payments' = done.store
              /\ last' = [Response("webhookController.handleStripeWebhook",
                                   done.id, 200, "received", done.calls)
                          EXCEPT !.request = request]
  /\ UNCHANGED <<now, simulationMode, isSimulationMode, inflight, overwrote>>

\* POST /api/webhooks/stripe through the middleware of the server
PostWebhooksStripe ==
  \E payload \in IntentPayloads, fail \in DbFailures :
    /\ handlerOf(WebhooksRoute) = "webhookController.handleStripeWebhook"
    /\ webhookControllerHandleStripeWebhook(
         Merge(payload, [body |-> bodyAtHandler(WebhooksRoute),
                         route |-> WebhooksRoute]),
         fail)

\* two refund requests, each split at its await of refundPayment
ProcessRefundRead ==
  \E id \in PaymentIds, amount \in RefundAmounts, serial \in {1, 2} :
    processRefundRead(id, amount, serial)

ProcessRefundWrite ==
  \E request \in inflight : processRefundWrite(request)

\* the status of a session a payment holds is asked for
CheckStripeSessionStatus ==
  \E id \in {p \in PaymentIds : payments[p].exists}, gateway \in GatewayOutcomes :
    /\ payments[id].stripeSessionId # None
    /\ checkStripeSessionStatus(payments[id].stripeSessionId, gateway)

\* a webhook about the checkout session a payment holds
DeliverSessionWebhook ==
  \E id \in {p \in PaymentIds : payments[p].exists},
     payload \in Payloads, fail \in WebhookDbFailures :
    /\ payments[id].stripeSessionId # None
    /\ payload.paymentId = id
    /\ handleStripeWebhook(
         Merge(payload, [body |-> "raw", route |-> None,
                         session_id |-> payments[id].stripeSessionId]),
         fail)

HandleStripeWebhook ==
  \E payload \in Payloads, fail \in WebhookDbFailures :
    handleStripeWebhook(Merge(payload, [body |-> "raw", route |-> None]),
                        fail)

\* POST /api/payments/webhook/stripe through the middleware of the server
PostPaymentsWebhook ==
  \E payload \in Payloads, fail \in WebhookDbFailures :
    /\ handlerOf(PaymentsWebhookRoute)
         = "paymentController.handleStripeWebhook"
    /\ handleStripeWebhook(
         Merge(payload, [body |-> bodyAtHandler(PaymentsWebhookRoute),
                         route |-> PaymentsWebhookRoute]),
         fail)

CancelPaymentRead == \E id \in PaymentIds : cancelPaymentRead(id)

CancelPaymentWrite == \E request \in inflight : cancelPaymentWrite(request)

HandleCheckoutExpiredReceived ==
  \E payload \in Payloads :
    handleCheckoutExpiredReceived(
      Merge(payload, [body |-> "raw", route |-> None]))

HandleCheckoutExpiredWrite ==
  \E request \in inflight : handleCheckoutExpiredWrite(request)

Next ==
  \/ CreatePayment
  \/ UpdatePaymentStatus
  \/ ProcessRefund
  \/ CancelPayment
  \/ CreateStripePaymentLink
  \/ HandleStripeWebhook
  \/ PostPaymentsWebhook
  \/ CancelPaymentRead
  \/ CancelPaymentWrite
  \/ HandleCheckoutExpiredReceived
  \/ HandleCheckoutExpiredWrite
  \/ CheckStripeSessionStatus
  \/ DeliverSessionWebhook
  \/ ProcessRefundRead
  \/ ProcessRefundWrite
  \/ PostWebhooksStripe
  \/ Tick

Spec == Init /\ [][Next]_vars

\* the authenticated API alone, called with creation bodies that pass the
\* validation: no webhook is delivered
NextApi ==
  \/ CreateValidPayment
  \/ UpdatePaymentStatus
  \/ ProcessRefund
  \/ CancelPayment
  \/ Tick

SpecApi == Init /\ [][NextApi]_vars

\* webhook reconciliation: payments are created (with bodies that pass the
\* validation), cancelled and refunded through the API and webhook events
\* are delivered
NextWebhook ==
  \/ CreateValidPayment
  \/ CancelPayment
  \/ ProcessRefund
  \/ HandleStripeWebhook
  \/ PostPaymentsWebhook

SpecWebhook == Init /\ [][NextWebhook]_vars

\* checkout initiation: payments are created (with bodies that pass the
\* validation), their status is updated, and checkout links are requested
NextCheckout ==
  \/ CreateValidPayment
  \/ UpdatePaymentStatus
  \/ CreateStripePaymentLink
  \/ Tick

SpecCheckout == Init /\ [][NextCheckout]_vars

\* concurrent requests: a cancel request and a 'checkout expired' webhook
\* each await their updatePayment call while other webhooks are handled
NextRace ==
  \/ CreateValidPayment
  \/ HandleStripeWebhook
  \/ CancelPaymentRead
  \/ CancelPaymentWrite
  \/ HandleCheckoutExpiredReceived
  \/ HandleCheckoutExpiredWrite

SpecRace == Init /\ [][NextRace]_vars

\* payment creation alone, with every request body
NextCreate ==
  \/ CreatePayment

SpecCreate == Init /\ [][NextCreate]_vars

\* the lookups of databaseService
Lookups ==
  {"findPaymentById", "findPayments", "findPaymentsByReservation",
   "findReservationById"}

\* the lookups whose catch block tests error.response?.status === 404
returnsNullOnNotFound ==
  {"findPaymentById", "findReservationById"}

\* a request the persistence service did not answer (timeout, connection
\* refused): error.response is undefined
NoResponse == 0

\* what the persistence service answers to the GET of a lookup
UpstreamAnswers == {NoResponse, 200, 400, 401, 403, 404, 409, 500, 503}

\* the outcome of a lookup for an answer of the persistence service: the
\* data, null, or an AppError carrying error.response?.status || 500
lookup(name, status) ==
  IF status = 200 THEN [outcome |-> "data", statusCode |-> 200]
  ELSE IF status = 404 /\ name \in returnsNullOnNotFound
  THEN [outcome |-> "null", statusCode |-> 200]
  ELSE [outcome |-> "AppError",
        statusCode |-> IF status = NoResponse THEN 500 ELSE status]

\* a lookup and the answer the persistence service gives to its request
LookupInputs ==
  {[Response(name, id, 0, None, {})
    EXCEPT !.request = [status |-> status]] :
     name \in Lookups, id \in RequestIds, status \in UpstreamAnswers}

InitLookups ==
  /\ payments = [id \in PaymentIds |-> NoPayment]
  /\ now = 0
  /\ simulationMode \in BOOLEAN
  /\ isSimulationMode \in BOOLEAN
  /\ inflight = {}
  /\ overwrote = {}
  /\ last \in LookupInputs

\* the lookup held gets its answer
Lookup ==
  /\ last.op \in Lookups
  /\ last.code = 0
  /\ LET result == lookup(last.op, last.request.status)
     IN  last' = [last EXCEPT !.code = result.statusCode,
                              !.msg = result.outcome]
  /\ UNCHANGED <<payments, now, simulationMode, isSimulationMode, inflight,
                 overwrote>>

NextLookups ==
  \/ Lookup

SpecLookups == InitLookups /\ [][NextLookups]_vars

\* the operations on a payment that exists, with a persistence service and
\* a gateway that answer every call, and webhooks that verify
CreateStoredPayment ==
  \E paymentData \in ValidCreateBodies : createPayment(paymentData, "none")

UpdateStoredStatus ==
  \E id \in PaymentIds, status \in RequestStatuses,
     transactionId \in {None, "txn_1"} :
    updatePaymentStatus(id, status, transactionId, "none")

LinkStoredPayment ==
  \E id \in PaymentIds : createStripePaymentLink(id, "ok", "none")

CompleteOrExpireStoredPayment ==
  \E payload \in Payloads :
    /\ payload.wellFormed /\ payload.signed
    /\ payload.paymentId \in PaymentIds
    /\ handleStripeWebhook(Merge(payload, [body |-> "raw", route |-> None]),
                           "none")

RefundStoredPayment ==
  \E id \in PaymentIds, amount \in RefundAmounts :
    processRefund(id, amount, "none")

CancelStoredPayment ==
  \E id \in PaymentIds : cancelPayment(id, "none")

NextRefundRace ==
  \/ CreateStoredPayment
  \/ UpdateStoredStatus
  \/ ProcessRefundRead
  \/ ProcessRefundWrite

SpecRefundRace == Init /\ [][NextRefundRace]_vars

\* the events of the gateway on both webhook handlers
NextIntents ==
  \/ CreateStoredPayment
  \/ UpdateStoredStatus
  \/ CompleteOrExpireStoredPayment
  \/ PostWebhooksStripe

SpecIntents == Init /\ [][NextIntents]_vars

\* every operation that sends an update of a payment
NextUpdates ==
  \/ CreateStoredPayment
  \/ UpdateStoredStatus
  \/ LinkStoredPayment
  \/ CompleteOrExpireStoredPayment
  \/ RefundStoredPayment
  \/ CancelStoredPayment

SpecUpdates == Init /\ [][NextUpdates]_vars

\* the life of a checkout session: creation, webhooks, status
NextSession ==
  \/ CreateValidPayment
  \/ CreateStripePaymentLink
  \/ DeliverSessionWebhook
  \/ CheckStripeSessionStatus

SpecSession == Init /\ [][NextSession]_vars

\* the methods given to calculateTransactionFees: those of its tables and
\* one it does not know
FeeMethods == validMethods \cup {"cheque"}

\* the arguments of a call of calculateTransactionFees, and the amount_total
\* of a 'checkout completed' event whose fees the handler computes
FeeInputs ==
  {[Response("calculateTransactionFees", None, 0, None, {})
    EXCEPT !.request = [amount |-> amount, paymentMethod |-> paymentMethod]] :
     amount \in 0..MaxFeeAmount, paymentMethod \in FeeMethods}
  \cup {[Response("handleCheckoutCompleted", None, 0, None, {})
         EXCEPT !.request = [amount_total |-> amount]] :
          amount \in 1..MaxFeeAmount}

InitFees ==
  /\ payments = [id \in PaymentIds |-> NoPayment]
  /\ now = 0
  /\ simulationMode \in BOOLEAN
  /\ isSimulationMode \in BOOLEAN
  /\ inflight = {}
  /\ overwrote = {}
  /\ last \in FeeInputs

\* a call of calculateTransactionFees with the arguments held, the first or
\* the second one
CalculateTransactionFees ==
  /\ last.op = "calculateTransactionFees"
  /\ LET call == IF last.code = 0 THEN 1 ELSE last.data.call + 1
         result == calculateTransactionFees(last.request.amount,
                                            last.request.paymentMethod)
     IN  /\ call <= 2
         /\ last' = [last EXCEPT !.code = 200,
                                 !.data = Merge(result, [call |-> call])]
  /\ UNCHANGED <<payments, now, simulationMode, isSimulationMode, inflight,
                 overwrote>>

\* the fees and netAmount handleCheckoutCompleted puts in its update for
\* the amount_total held
CalculateStripeFees ==
  /\ last.op = "handleCheckoutCompleted"
  /\ last.code = 0
  /\ LET updateData ==
           completedUpdateData([id |-> "cs_1", payment_intent |-> "pi_1",
                                amount_total |-> last.request.amount_total])
     IN  last' = [last EXCEPT !.code = 200,
                              !.data = [fees |-> updateData.fees,
                                        netAmount |-> updateData.netAmount]]
  /\ UNCHANGED <<payments, now, simulationMode, isSimulationMode, inflight,
                 overwrote>>

NextFees ==
  \/ CalculateTransactionFees
  \/ CalculateStripeFees

SpecFees == InitFees /\ [][NextFees]_vars

\* ------------------------------------------------------------------------
\* Properties
\* ------------------------------------------------------------------------
Existing == {id \in PaymentIds : payments[id].exists}

\* the last request was a webhook carrying a checkout event of the given
\* type for the payment id
CheckoutEventFor(response, type, id) ==
  /\ response.op = "handleStripeWebhook"
  /\ response.event.type = type
  /\ response.event.paymentId = id

\* this step handles a request of the given operation on the payment id
\* (a step of the clock handles none)
Handles(op, id) == now' = now /\ last'.op = op /\ last'.id = id

\* this step handles a webhook carrying a checkout event of the given type
\* for the payment id
Delivers(type, id) == now' = now /\ CheckoutEventFor(last', type, id)

\* C1: for every payment, refundAmount <= amount in every state reachable by
\* any sequence of refund operations handled one after another
C1_RefundWithinAmount ==
  \A id \in Existing : payments[id].refundAmount <= payments[id].amount

\* a refund above the remaining balance was refused after earlier refunds
C1_Witness ==
  /\ last.op = "processRefund" /\ last.code = 400 /\ last.msg = "maximum"
  /\ last.id \in Existing
  /\ payments[last.id].refundAmount > 0
  /\ payments[last.id].refundAmount < payments[last.id].amount

\* C2: a 'checkout expired' event handled after the payment was set to
\* completed leaves the payment as it is: still completed, no failure note
C2_ExpiredAfterCompletedIgnored ==
  [][\A id \in Existing :
       (payments[id].status = COMPLETE
        /\ Delivers("checkout.session.expired", id))
       => payments'[id] = payments[id]]_vars

\* C3: delivering the same 'checkout completed' event a second time leaves
\* the payment completed with the status, transactionId, fees and netAmount
\* it had after the first delivery
C3_CompletedIdempotent ==
  [][\A id \in Existing :
       (/\ CheckoutEventFor(last, "checkout.session.completed", id)
        /\ "markPaymentAsCompleted" \in last.calls
        /\ Handles("handleStripeWebhook", id)
        /\ last'.event = last.event)
       => /\ payments'[id].status = COMPLETE
          /\ payments'[id].status = payments[id].status
          /\ payments'[id].transactionId = payments[id].transactionId
          /\ payments'[id].fees = payments[id].fees
          /\ payments'[id].netAmount = payments[id].netAmount]_vars

\* the same 'checkout completed' event was applied twice in a row to a
\* payment that holds the fees of the event
C3_Witness ==
  /\ last.op = "handleStripeWebhook"
  /\ last.event.type = "checkout.session.completed"
  /\ last.redelivered
  /\ "markPaymentAsCompleted" \in last.calls
  /\ payments[last.id].status = COMPLETE
  /\ payments[last.id].fees # NoMoney

\* C4: cancel on a completed payment is answered 400 'use the refund
\* operation' (unless the lookup itself fails), sends no update and leaves
\* the payment completed
C4_CancelCompletedRefused ==
  [][\A id \in Existing :
       (payments[id].status = COMPLETE
        /\ Handles("cancelPayment", id))
       => /\ payments' = payments
          /\ "updatePayment" \notin last'.calls
          /\ \/ last'.code = 400 /\ last'.msg = "utilisez le remboursement"
             \/ last'.code = 500 /\ last'.msg = "upstream"]_vars

\* a cancel request on a completed payment was answered 400
C4_Witness ==
  /\ last.op = "cancelPayment" /\ last.code = 400
  /\ last.msg = "utilisez le remboursement"
  /\ last.id \in Existing
  /\ payments[last.id].status = COMPLETE

\* C5: a cancel request on a refunded payment is rejected and the status
\* stays refunded
C5_CancelRefundedRefused ==
  [][\A id \in Existing :
       (payments[id].status = REMBOURSE
        /\ Handles("cancelPayment", id))
       => /\ payments'[id].status = REMBOURSE
          /\ last'.code # 200]_vars

\* C6: a refund request on a payment that is not completed is answered 400
\* (unless the lookup itself fails) and makes neither the persistence
\* refund call nor the gateway refund call
C6_RefundNeedsCompleted ==
  [][\A id \in Existing :
       (payments[id].status # COMPLETE
        /\ Handles("processRefund", id))
       => /\ payments' = payments
          /\ last'.calls \cap {"refundPayment", "stripe.processRefund"} = {}
          /\ \/ last'.code = 400 /\ last'.msg = "status"
             \/ last'.code = 500 /\ last'.msg = "upstream"]_vars

\* a refund request on a pending payment was answered 400
C6_Witness ==
  /\ last.op = "processRefund" /\ last.code = 400 /\ last.msg = "status"
  /\ last.id \in Existing
  /\ payments[last.id].status = EN_ATTENTE

\* C7: a 'checkout completed' or 'checkout expired' event for a payment
\* that is cancelled or failed leaves its status unchanged
C7_CancelledFailedTerminal ==
  [][\A id \in Existing :
       (payments[id].status \in {ANNULE, ECHOUE}
        /\ \/ Delivers("checkout.session.completed", id)
           \/ Delivers("checkout.session.expired", id))
       => payments'[id].status = payments[id].status]_vars

\* the transitions of the payment state machine
LegalTransitions ==
  {<<EN_ATTENTE, TRAITEMENT>>, <<TRAITEMENT, COMPLETE>>,
   <<TRAITEMENT, ECHOUE>>, <<EN_ATTENTE, ANNULE>>, <<TRAITEMENT, ANNULE>>,
   <<COMPLETE, REMBOURSE>>}

\* C8: the update-status operation changes the stored status only along a
\* transition of the state machine
C8_UpdateFollowsStateMachine ==
  [][\A id \in Existing :
       Handles("updatePaymentStatus", id)
       => \/ payments'[id].status = payments[id].status
          \/ <<payments[id].status, payments'[id].status>>
               \in LegalTransitions]_vars

\* C9: after a refund that passed the eligibility check and was persisted,
\* the status is refunded exactly when the new refundAmount equals the
\* amount, and it is still completed when the new refundAmount is below it
C9_RefundedOnlyWhenFull ==
  [][\A id \in Existing :
       (/\ Handles("processRefund", id)
        /\ payments'[id].refundAmount # payments[id].refundAmount)
       => /\ payments'[id].status = REMBOURSE
             <=> payments'[id].refundAmount = payments'[id].amount
          /\ payments'[id].refundAmount < payments'[id].amount
             => payments'[id].status = COMPLETE
          /\ payments'[id].refundAmount > payments[id].refundAmount]_vars

\* a refund of 6000 after a refund of 4000 (or the reverse) brought a
\* payment of 10000 to refunded
C9_Witness ==
  /\ last.op = "processRefund" /\ last.code = 200
  /\ last.id \in Existing
  /\ payments[last.id].amount = 10000
  /\ payments[last.id].refundAmount = 10000
  /\ payments[last.id].status = REMBOURSE

\* C10: the record of an accepted creation request has status pending and
\* the placeholder transactionId, and holds no card details
C10_CreatedPendingWithoutDetails ==
  (last.op = "createPayment" /\ last.code = 201)
  => /\ last.id \in Existing
     /\ payments[last.id].status = EN_ATTENTE
     /\ payments[last.id].transactionId = "temp"
     /\ payments[last.id].paymentDetails = None

\* a creation request for a card payment, which carried card details, was
\* accepted
C10_Witness ==
  /\ last.op = "createPayment" /\ last.code = 201
  /\ payments[last.id].paymentMethod = CARTE_CREDIT

\* this step handles a creation request
Creates == now' = now /\ last'.op = "createPayment"

\* C11: a creation request whose reservation lookup returns null is answered
\* 404 and no payment record is created
C11_MissingReservationNotFound ==
  [][(/\ Creates
      /\ "findReservationById" \in last'.calls
      /\ last'.msg # "upstream"
      /\ last'.request.reservationId \notin Reservations)
     => /\ last'.code = 404
        /\ "createPayment" \notin last'.calls
        /\ payments' = payments]_vars

\* a valid creation request naming a reservation that does not exist was
\* answered 404 and no payment exists
C11_Witness ==
  /\ last.op = "createPayment" /\ last.code = 404
  /\ last.request.reservationId = "r404"
  /\ Existing = {}

\* C12: a creation request with the reference of an existing reservation, a
\* positive amount and the card method, without card details, is answered
\* 201 (unless the persistence service fails)
C12_CardWithoutDetailsAccepted ==
  (/\ last.op = "createPayment"
   /\ last.request.reservation \in Reservations
   /\ last.request.reservationId \in Reservations
   /\ last.request.amount > 0
   /\ last.request.paymentMethod = CARTE_CREDIT
   /\ last.request.paymentDetails = None
   /\ last.msg # "upstream")
  => last.code = 201

\* the creation body fails one of the checks on the reservation reference,
\* the amount and the method
FailsValidation(paymentData) ==
  \/ paymentData.reservation = None
  \/ paymentData.amount <= 0
  \/ paymentData.paymentMethod = None
  \/ paymentData.paymentMethod \notin validMethods

\* C13: a creation request without reservation reference, with an amount
\* missing or <= 0, or with a method missing or outside the allowed set is
\* answered 400, and makes no reservation lookup and no payment creation
C13_InvalidCreationRejected ==
  [][(Creates /\ FailsValidation(last'.request))
     => /\ last'.code = 400
        /\ last'.calls = {}
        /\ payments' = payments]_vars

\* a creation request whose only defect is a method outside the allowed set
\* was answered 400 without any call to the persistence service
C13_Witness ==
  /\ last.op = "createPayment" /\ last.code = 400 /\ last.calls = {}
  /\ last.request.reservation = "r1"
  /\ last.request.reservationId = "r1"
  /\ last.request.amount > 0
  /\ last.request.paymentMethod = "methode_invalide"

\* the functions that create a checkout session
SessionCreators ==
  {"createSimulatedPaymentLink", "stripe.createSimulatedSession",
   "stripe.checkout.sessions.create"}

\* C14: initiate checkout is accepted only for a payment that is pending or
\* processing and whose method is card; for any other status or method it
\* is answered 400 (unless the lookup itself fails), creates no session and
\* leaves the payment record unchanged
C14_CheckoutNeedsOpenCardPayment ==
  [][\A id \in Existing :
       Handles("createStripePaymentLink", id)
       => /\ last'.code = 200
             => /\ payments[id].status \in {EN_ATTENTE, TRAITEMENT}
                /\ payments[id].paymentMethod = CARTE_CREDIT
          /\ (\/ payments[id].status \notin {EN_ATTENTE, TRAITEMENT}
              \/ payments[id].paymentMethod # CARTE_CREDIT)
             => /\ payments' = payments
                /\ last'.calls \cap SessionCreators = {}
                /\ \/ last'.code = 400 /\ last'.msg \in {"status", "method"}
                   \/ last'.code = 500 /\ last'.msg = "upstream"]_vars

\* a checkout link was refused for a pending payment by bank transfer
C14_Witness ==
  /\ last.op = "createStripePaymentLink"
  /\ last.code = 400 /\ last.msg = "method"
  /\ last.id \in Existing
  /\ payments[last.id].status = EN_ATTENTE
  /\ payments[last.id].paymentMethod = "virement"

\* C15: when the gateway fails to create the checkout session, the payment
\* record is not modified and the caller is answered with the error
C15_GatewayFailureLeavesPayment ==
  [][\A id \in Existing :
       (/\ Handles("createStripePaymentLink", id)
        /\ last'.request.gateway = "error"
        /\ "stripe.checkout.sessions.create" \in last'.calls)
       => /\ payments' = payments
          /\ "updatePayment" \notin last'.calls
          /\ last'.code = 400 /\ last'.msg = "creation du lien"]_vars

\* the gateway refused a session for a pending card payment, which is still
\* pending and holds no session
C15_Witness ==
  /\ last.op = "createStripePaymentLink"
  /\ last.code = 400
  /\ last.request.gateway = "error"
  /\ "stripe.checkout.sessions.create" \in last.calls
  /\ last.id \in Existing
  /\ payments[last.id].status = EN_ATTENTE
  /\ payments[last.id].stripeSessionId = None

\* C16: after a successful initiate checkout the payment is processing and
\* its stored session id and url are those of the session just created
C16_LatestSessionStored ==
  (last.op = "createStripePaymentLink" /\ last.code = 200)
  => /\ last.id \in Existing
     /\ payments[last.id].status = TRAITEMENT
     /\ payments[last.id].stripeSessionId = last.data.sessionId
     /\ payments[last.id].paymentLinkUrl = last.data.paymentUrl

\* a second session was created for a payment that held one, and replaced it
C16_Witness ==
  /\ last.op = "createStripePaymentLink" /\ last.code = 200
  /\ last.request.held \in SessionIds
  /\ last.data.sessionId # last.request.held
  /\ payments[last.id].stripeSessionId = last.data.sessionId

\* this step handles a webhook carrying a 'checkout completed' or a
\* 'checkout expired' event
DeliversCheckoutEvent ==
  /\ now' = now
  /\ last'.op = "handleStripeWebhook"
  /\ last'.event.type \in {"checkout.session.completed",
                           "checkout.session.expired"}

\* C17: a 'checkout completed' event correlated to an existing payment (whose
\* update the persistence service accepts) leaves the payment completed,
\* with a payment date and with the gateway reference of the event as
\* transactionId instead of the placeholder
C17_CompletedStoresGatewayReference ==
  [][\A id \in Existing :
       (/\ Delivers("checkout.session.completed", id)
        /\ "markPaymentAsCompleted" \in last'.calls)
       => /\ payments'[id].status = COMPLETE
          /\ payments'[id].paymentDate = now
          /\ payments'[id].transactionId
               = (IF last'.event.payment_intent # None
                  THEN last'.event.payment_intent ELSE last'.event.id)
          /\ payments'[id].transactionId # "temp"]_vars

\* a 'checkout completed' event carrying a payment intent completed a
\* payment, which holds the payment intent as transactionId
C17_Witness ==
  /\ last.op = "handleStripeWebhook"
  /\ last.event.type = "checkout.session.completed"
  /\ last.event.payment_intent = "pi_1"
  /\ last.id \in Existing
  /\ payments[last.id].status = COMPLETE
  /\ payments[last.id].paymentDate # NoDay
  /\ payments[last.id].transactionId = "pi_1"

\* C18: the fees and netAmount stored by the 'checkout completed' handler
\* for a gross amount are the totalFees and netAmount of
\* calculateTransactionFees for that amount and the card method
C18_StoredFeesAreCalculatorFees ==
  (/\ last.op = "handleStripeWebhook"
   /\ last.event.type = "checkout.session.completed"
   /\ last.event.amount_total # 0
   /\ "markPaymentAsCompleted" \in last.calls)
  => LET expected == calculateTransactionFees(last.event.amount_total,
                                              CARTE_CREDIT)
     IN  /\ payments[last.id].fees = expected.totalFees
         /\ payments[last.id].netAmount = expected.netAmount

\* C19: a 'checkout completed' or 'checkout expired' event without payment
\* id in its metadata makes no call to the persistence service, changes no
\* record and is acknowledged with 200
C19_EventWithoutPaymentIdDropped ==
  [][(DeliversCheckoutEvent /\ last'.event.paymentId = None)
     => /\ last'.calls = {}
        /\ payments' = payments
        /\ last'.code = 200]_vars

\* a 'checkout expired' event without payment id was acknowledged while a
\* payment exists
C19_Witness ==
  /\ last.op = "handleStripeWebhook" /\ last.code = 200
  /\ last.event.type = "checkout.session.expired"
  /\ last.event.paymentId = None
  /\ last.calls = {}
  /\ Existing # {}

DeliversWebhook == now' = now /\ last'.op = "handleStripeWebhook"

\* the verification of the webhook of a handled request succeeds: its raw
\* body carries a valid signature, or parses as JSON in simulation mode
Verifies(request) ==
  /\ request.body = "raw"
  /\ IF simulationMode THEN request.wellFormed ELSE request.signed

\* C21: the webhook handler answers 400 exactly when the verification or
\* parsing of the webhook fails, and then reads and modifies no payment;
\* every verified event is answered 200, even when a persistence call of
\* its handler fails
C21_BadWebhookRejectedOthersAcknowledged ==
  [][DeliversWebhook
     => /\ last'.code = 400 <=> ~Verifies(last'.request)
        /\ ~Verifies(last'.request)
           => (last'.calls = {} /\ payments' = payments)
        /\ Verifies(last'.request) => last'.code = 200]_vars

\* a verified 'checkout completed' event for an existing payment was
\* answered 200 although the update of the payment failed
C21_Witness ==
  /\ last.op = "handleStripeWebhook" /\ last.code = 200
  /\ Verifies(last.request)
  /\ last.event.type = "checkout.session.completed"
  /\ last.id \in Existing
  /\ last.calls = {"findPaymentById", "updatePayment"}
  /\ payments[last.id].status # COMPLETE

\* C22: on every webhook route, the body handed to the verification step is
\* the raw body
C22_WebhookBodyIsRaw ==
  (last.op = "handleStripeWebhook" /\ last.request.route # None)
  => last.request.body = "raw"

\* C23: the update of a request that awaited it is applied to the record
\* whatever happened to the payment in between (the last write wins), so a
\* cancel that read the status before the completion, and a 'checkout
\* expired' event, both leave their status on a payment that a 'checkout
\* completed' event has completed
C23_LastWriteWins ==
  [][\A request \in inflight :
       request \notin inflight'
       => payments'[request.id].status
            = (IF request.op = "cancelPayment" THEN ANNULE ELSE ECHOUE)]_vars

\* both interleavings happened, and the payment is failed or cancelled while
\* it holds the payment intent of the 'checkout completed' event
C23_Witness ==
  /\ overwrote = {"cancelPayment", "handleCheckoutExpired"}
  /\ \E id \in Existing :
       /\ payments[id].status \in {ANNULE, ECHOUE}
       /\ payments[id].transactionId = "pi_1"


\* a step that answers a refund request for the payment
Refunds(id) == Handles("processRefund", id)

\* the refund request got as far as the eligibility check: the payment was
\* read
Evaluated(id) ==
  /\ payments[id].exists
  /\ ~(last'.msg = "upstream" /\ last'.calls = {"findPaymentById"})

\* the names under which a gateway refund call is recorded
GatewayRefundCalls == {"stripe.processRefund", "stripe.createRefund"}

\* C24: in a refund of a card payment that has a transaction id, the
\* refundAmount is never updated at the persistence service without the
\* gateway refund having been made
C24_GatewayRefundBeforePersistence ==
  [][\A id \in Existing :
       (/\ Refunds(id)
        /\ needsGatewayRefund(payments[id])
        /\ payments'[id].refundAmount # payments[id].refundAmount)
       => (/\ last'.calls \cap GatewayRefundCalls # {}
           /\ last'.code = 200)]_vars

\* C25: the eligibility check reports the first rule that fails in the
\* order status, remaining balance, 30-day window, and accepts the request
\* when none fails
C25_FirstFailingRuleReported ==
  [][\A id \in Existing :
       (Refunds(id) /\ Evaluated(id))
       => LET payment == payments[id]
              requested == last'.request.amount
          IN  IF payment.status # COMPLETE
              THEN last'.code = 400 /\ last'.msg = "status"
              ELSE IF requested > payment.amount - payment.refundAmount
              THEN last'.code = 400 /\ last'.msg = "maximum"
              ELSE IF payment.paymentDate # NoDay
                      /\ now > payment.paymentDate + RefundWindowDays
              THEN last'.code = 400 /\ last'.msg = "delai"
              ELSE last'.code # 400]_vars

\* a refund of more than the remaining balance, asked after the end of the
\* refund window of a completed payment, was answered with the maximum
\* reason
C25_Witness ==
  /\ last.op = "processRefund" /\ last.code = 400 /\ last.msg = "maximum"
  /\ last.id \in Existing
  /\ payments[last.id].status = COMPLETE
  /\ payments[last.id].paymentDate # NoDay
  /\ last.request.at > payments[last.id].paymentDate + RefundWindowDays
  /\ last.request.amount
       > payments[last.id].amount - payments[last.id].refundAmount

\* C26: a refund of a completed payment whose paymentDate is 40 days in the
\* past is refused with the refund window reason, whatever the amount
C26_FortyDaysOldRefusedForWindow ==
  [][\A id \in Existing :
       (/\ Refunds(id) /\ Evaluated(id)
        /\ payments[id].status = COMPLETE
        /\ payments[id].paymentDate # NoDay
        /\ now - payments[id].paymentDate = 40)
       => (last'.code = 400 /\ last'.msg = "delai")]_vars

\* C27: for a completed payment inside the refund window, a request of at
\* most amount - refundAmount succeeds and adds the requested amount to
\* refundAmount, and a larger request is refused with the maximum reason
C27_RefundAcceptedUpToBalance ==
  [][\A id \in Existing :
       (/\ Refunds(id) /\ Evaluated(id)
        /\ last'.msg # "upstream"
        /\ payments[id].status = COMPLETE
        /\ payments[id].paymentDate # NoDay
        /\ now <= payments[id].paymentDate + RefundWindowDays)
       => IF last'.request.amount
               <= payments[id].amount - payments[id].refundAmount
          THEN /\ last'.code = 200
               /\ payments'[id].refundAmount
                    = payments[id].refundAmount + last'.request.amount
          ELSE /\ last'.code = 400 /\ last'.msg = "maximum"
               /\ payments' = payments]_vars

\* C30: the amount a gateway call is given is the stored amount in minor
\* units, for the session that is created and for the refund
C30_GatewayAmountsInMinorUnits ==
  "gatewayAmount" \in DOMAIN last.data
  => last.data.gatewayAmount
       = (IF last.op = "processRefund" THEN last.request.amount
          ELSE payments[last.id].amount)

\* this step is a call of calculateTransactionFees
CallsCalculator == last'.op = "calculateTransactionFees" /\ last'.code = 200

C29_NetAmountNeverNegative ==
  /\ (/\ last.op = "calculateTransactionFees" /\ last.code = 200
      /\ last.request.amount > 0)
     => last.data.netAmount >= 0
  /\ (/\ last.op = "handleCheckoutCompleted" /\ last.code = 200
      /\ last.request.amount_total > 0)
     => last.data.netAmount >= 0

\* the ids of the sessions made by the simulated creators
SimulationIds == SimulatedLinkIds \cup SimulatedSessionIds

\* C31: every session id produced in simulation is routed by
\* retrieveSession to the simulated status, whatever the mode of the
\* gateway client
C31_SimulatedIdsRoutedToSimulation ==
  (/\ last.op = "checkStripeSessionStatus"
   /\ last.request.sessionId \in SimulationIds)
  => last.calls = {"stripe.getSimulatedSessionStatus"}

\* the mode in which a session id was created
creationMode(sessionId) ==
  IF sessionId \in GatewaySessionIds THEN "live" ELSE "simulation"

\* C32: the webhook of a checkout session is verified or parsed, and its
\* status is retrieved, in the mode in which the session was created
C32_ModesNeverMixed ==
  /\ (last.op = "handleStripeWebhook"
      /\ last.request.session_id \in SessionIds)
     => last.request.mode = creationMode(last.request.session_id)
  /\ last.op = "checkStripeSessionStatus"
     => (creationMode(last.request.sessionId) = "simulation"
         <=> last.calls = {"stripe.getSimulatedSessionStatus"})

\* C33: the session created by initiate checkout expires 24 hours after
\* its creation and carries the id of the payment and of its reservation as
\* metadata
C33_SessionExpiryAndMetadata ==
  (last.op = "createStripePaymentLink" /\ last.code = 200)
  => /\ last.data.expiresAt
          = payments[last.id].linkCreatedAt + SessionLifeDays
     /\ last.data.metadata.paymentId = last.id
     /\ last.data.metadata.reservationId = payments[last.id].reservationId

\* C34: in simulation mode, a simulated 'checkout completed' webhook for
\* the session of a payment in processing (whose updates the persistence
\* service accepts) leaves the payment completed, with a new transactionId
\* and with fees and netAmount
C34_SimulatedCompletionPopulatesFees ==
  [][\A id \in Existing :
       (/\ simulationMode
        /\ Delivers("checkout.session.completed", id)
        /\ payments[id].status = TRAITEMENT
        /\ last'.event.id = payments[id].stripeSessionId
        /\ "markPaymentAsCompleted" \in last'.calls)
       => /\ payments'[id].status = COMPLETE
          /\ payments'[id].transactionId # payments[id].transactionId
          /\ payments'[id].fees # NoMoney
          /\ payments'[id].netAmount # NoMoney]_vars

\* C35: a lookup answered 404 by the persistence service returns null, and
\* a lookup answered by any other status outside 2xx throws an error that
\* carries that status
C35_NotFoundIsNullOtherErrorsCarryStatus ==
  (last.op \in Lookups /\ last.code # 0)
  => /\ last.request.status = 404 => last.msg = "null"
     /\ last.request.status \notin {NoResponse, 200, 404}
        => (last.msg = "AppError" /\ last.code = last.request.status)

\* C36: the status of every payment is one of the six statuses, under the
\* spelling the guards of the operations test
C36_StatusWithinTheSix ==
  \A id \in Existing : payments[id].status \in Statuses

\* C37: no step changes the paymentMethod, the reservationId or the amount
\* of a payment that exists
C37_MethodReservationAmountImmutable ==
  [][\A id \in Existing :
       /\ payments'[id].paymentMethod = payments[id].paymentMethod
       /\ payments'[id].reservationId = payments[id].reservationId
       /\ payments'[id].amount = payments[id].amount]_vars

\* a 'checkout completed' event completed a payment by bank transfer: the
\* update names the card as method of the session and the record still
\* holds the transfer
C37_Witness ==
  /\ last.op = "handleStripeWebhook"
  /\ last.event.type = "checkout.session.completed"
  /\ last.id \in Existing
  /\ "markPaymentAsCompleted" \in last.calls
  /\ payments[last.id].status = COMPLETE
  /\ payments[last.id].paymentMethodInfo.type = CARTE_CREDIT
  /\ payments[last.id].paymentMethod = "virement"

\* C38: also when two refund requests of a payment run concurrently, the
\* refunds persisted never add up to more than the amount
C38_ConcurrentRefundsWithinAmount ==
  (last.op = "processRefund" /\ last.id \in Existing)
  => payments[last.id].refundAmount <= payments[last.id].amount

\* C39: a 'payment_intent.payment_failed' or 'charge.dispute.created' event
\* received on /api/webhooks/stripe leaves a completed payment completed
C39_CompletedSurvivesFailedAndDispute ==
  [][\A id \in Existing :
       (/\ payments[id].status = COMPLETE
        /\ Handles("webhookController.handleStripeWebhook", id)
        /\ last'.request.type \in {"payment_intent.payment_failed",
                                   "charge.dispute.created"})
       => payments'[id].status = COMPLETE]_vars

====
